---- MODULE Spec2Model ----
(***************************************************************************)
(* Model of the Solana event listener: the reconnect supervisors           *)
(* (run_logs_subscribe, run_account_subscribe), one subscription session   *)
(* (try_logs_subscribe, try_account_subscribe), the frame handlers of      *)
(* src/src/rpc.rs, the configuration helpers of src/src/config.rs, the     *)
(* JSONL sink of src/src/storage.rs and the entry point of                 *)
(* src/src/main.rs.                                                        *)
(*                                                                         *)
(* Strings the code inspects character by character (log lines, the        *)
(* ACCOUNTS setting) are sequences of one-character strings.  Option<T>    *)
(* is [some |-> FALSE] or [some |-> TRUE, v |-> value].                    *)
(***************************************************************************)
EXTENDS Integers, Sequences, FiniteSets, TLC

VARIABLES
    entry,            \* which function the run starts in
    mode,             \* config.mode
    program_id,       \* config.program_id : Option<String>
    accounts,         \* config.accounts   : Option<String>
    commitment,       \* config.commitment : Commitment
    targets,          \* run_account_subscribe: the parsed account list
    pc,               \* position of the single task running supervisor and session
    attempt,          \* supervisor: `attempt`
    backoff,          \* supervisor: `backoff`, in seconds
    max_seconds,      \* calculate_backoff: parameter `max_seconds`
    session_result,   \* what the last try_*_subscribe call returned
    open_conns,       \* number of ws_stream values alive (connections held)
    subscription_id,  \* session: `subscription_id`
    sent,             \* messages written to the current connection, in order
    msg_result,       \* session: item yielded by read.next()
    file,             \* content of the JSONL file, a sequence of chunks
    events_total,     \* metrics.events_total
    errors_total,     \* metrics.errors_total
    ws_connected,     \* metrics.ws_connected
    errors_at_start,  \* value of errors_total when the current session started
    handler_errors,   \* errors of the text handler counted in the current session
    connects,         \* number of connect_async calls made so far
    failures,         \* number of session failures injected so far
    frames,           \* number of non-fatal inbound frames delivered so far
    received,         \* the text frames handled so far, response envelopes left out
    last_item,        \* the item just handled, while the session awaits the next
    wpc,              \* JsonlWriter::write: position of each caller
    wev,              \* JsonlWriter::write: the event each caller is writing
    done,             \* the events of the write calls that returned Ok(()), in order
    disk,             \* the part of the file that has reached stable storage
    exists,           \* the file exists
    file0,            \* content of the file before the first call: Option
    overlap,          \* two write calls have been in progress at the same time
    crashed,          \* "no", or the kind of crash that has happened
    arg,              \* a function called on its own: its argument
    ret               \* a function called on its own: the value it returned

vars == <<entry, mode, program_id, accounts, commitment, targets, pc, attempt, backoff,
          max_seconds, session_result, open_conns, subscription_id, sent,
          msg_result, file, events_total, errors_total, ws_connected,
          errors_at_start, handler_errors, connects, failures, frames, received,
          last_item,
          wpc, wev, done, disk, exists, file0, overlap, crashed, arg, ret>>

\* a connection of a session is open
ws_open == open_conns > 0

(***************************************************************************)
(* Bounds of the model.                                                    *)
(***************************************************************************)
\* session failures the environment may inject in one run
MaxFailures == 11
\* non-fatal inbound frames the environment may deliver in one run
MaxFrames == 2
\* session failures the environment may inject in a run in which it delivers
\* non-fatal frames; it delivers them only before this many failures
MaxBusyFailures == 2
\* largest attempt argument tried on calculate_backoff
MaxAttemptArg == 100
\* largest cap argument tried on calculate_backoff
MaxCapArg == 33
\* JsonlWriter::write calls made on the file in one run of the sink
MaxAppends == 3
\* longest log list tried on the program id heuristic
MaxLogLines == 2

(***************************************************************************)
(* Small helpers.                                                          *)
(***************************************************************************)
None == [some |-> FALSE]
Some(x) == [some |-> TRUE, v |-> x]

Min(a, b) == IF a <= b THEN a ELSE b

\* str::starts_with
StartsWith(s, p) == Len(s) >= Len(p) /\ SubSeq(s, 1, Len(p)) = p

\* char::is_whitespace, on the characters the model uses
IsWhitespace(c) == c \in {" ", "\t", "\n"}

\* str::split_whitespace: the maximal runs of non-whitespace characters
RECURSIVE SplitWs(_, _, _)
SplitWs(s, cur, acc) ==
    IF s = <<>>
    THEN IF cur = <<>> THEN acc ELSE Append(acc, cur)
    ELSE IF IsWhitespace(Head(s))
         THEN SplitWs(Tail(s), <<>>, IF cur = <<>> THEN acc ELSE Append(acc, cur))
         ELSE SplitWs(Tail(s), Append(cur, Head(s)), acc)

split_whitespace(s) == SplitWs(s, <<>>, <<>>)

\* str::split(','): the pieces between separators, empty pieces included
RECURSIVE SplitOn(_, _, _, _)
SplitOn(s, sep, cur, acc) ==
    IF s = <<>>
    THEN Append(acc, cur)
    ELSE IF Head(s) = sep
         THEN SplitOn(Tail(s), sep, <<>>, Append(acc, cur))
         ELSE SplitOn(Tail(s), sep, Append(cur, Head(s)), acc)

split(s, sep) == SplitOn(s, sep, <<>>, <<>>)

\* str::trim
RECURSIVE TrimStart(_)
TrimStart(s) ==
    IF s # <<>> /\ IsWhitespace(Head(s)) THEN TrimStart(Tail(s)) ELSE s

RECURSIVE TrimEnd(_)
TrimEnd(s) ==
    IF s # <<>> /\ IsWhitespace(s[Len(s)])
    THEN TrimEnd(SubSeq(s, 1, Len(s) - 1))
    ELSE s

trim(s) == TrimEnd(TrimStart(s))

\* Iterator::filter(|s| !s.is_empty())
RECURSIVE FilterNonEmpty(_)
FilterNonEmpty(ss) ==
    IF ss = <<>> THEN <<>>
    ELSE IF Head(ss) = <<>>
         THEN FilterNonEmpty(Tail(ss))
         ELSE <<Head(ss)>> \o FilterNonEmpty(Tail(ss))

\* [String]::join("")
RECURSIVE Join(_)
Join(ss) == IF ss = <<>> THEN <<>> ELSE Head(ss) \o Join(Tail(ss))

(***************************************************************************)
(* src/src/config.rs                                                       *)
(***************************************************************************)
\* variant: the empty pieces are not filtered out
parse_accounts_no_filter(accts) ==
    IF accts.some
    THEN [i \in 1..Len(split(accts.v, ",")) |-> trim(split(accts.v, ",")[i])]
    ELSE <<>>

\* Config::parse_accounts
parse_accounts(accts) ==
    IF accts.some
    THEN FilterNonEmpty([i \in 1..Len(split(accts.v, ",")) |->
                            trim(split(accts.v, ",")[i])])
    ELSE <<>>

\* variant: every level is sent as the default one
commitment_as_str_default(c) == "finalized"

\* Commitment::as_str
commitment_as_str(c) ==
    CASE c = "Processed" -> "processed"
      [] c = "Confirmed" -> "confirmed"
      [] c = "Finalized" -> "finalized"

\* Config::load: the mode-specific validation; TRUE when load returns Ok
load_ok(m, pid, accts) ==
    CASE m = "logs" /\ ~pid.some -> FALSE
      [] m = "account" /\ ~accts.some -> FALSE
      [] OTHER -> TRUE

(***************************************************************************)
(* src/src/rpc.rs: calculate_backoff                                       *)
(***************************************************************************)
\* 1u64 << n; n is at most 5 here, far below the 64 bits of the operand
Shl(x, n) == x * (2 ^ n)

\* variant: the exponent is clamped at 4
calculate_backoff_clamp4(a, cap) == Min(Shl(1, Min(a, 4)), cap)

calculate_backoff(a, cap) == Min(Shl(1, Min(a, 5)), cap)

(***************************************************************************)
(* Inputs: configurations, log lines, inbound frames.                      *)
(***************************************************************************)
W_Program == <<"P", "r", "o", "g", "r", "a", "m">>
W_7xyz == <<"7", "x", "y", "z", ".", ".", ".">>
W_invoke == <<"i", "n", "v", "o", "k", "e">>
W_depth == <<"[", "1", "]">>
W_Transfer == <<"T", "r", "a", "n", "s", "f", "e", "r">>
W_unknown == <<"u", "n", "k", "n", "o", "w", "n">>
SP == <<" ">>

\* "Program 7xyz... invoke [1]"
LineInvoke == W_Program \o SP \o W_7xyz \o SP \o W_invoke \o SP \o W_depth
\* "Transfer [1]"
LineOther == W_Transfer \o SP \o W_depth

\* the ACCOUNTS settings tried: absent, "", " , ", "a", "a, b"
AccountSettings ==
    { None, Some(<<>>), Some(<<" ", ",", " ">>), Some(<<"a">>),
      Some(<<"a", ",", " ", "b">>) }

\* the PROGRAM_ID settings tried
ProgramSettings == { None, Some(W_7xyz) }

\* the readings of OffsetDateTime::now_utc() tried
Timestamps == { "2024-01-01T00:00:00Z" }

\* JSON values, tagged by shape
JAbsent == [t |-> "absent"]
JStr(s) == [t |-> "str", s |-> s]
JNum(n) == [t |-> "num", n |-> n]
JErr(c, m) == [t |-> "err", code |-> c, message |-> m]
JLogs(slot, logs, sig) ==
    [t |-> "logs", slot |-> slot, logs |-> logs, signature |-> sig]
JAccount(slot, lamports, data) ==
    [t |-> "account", slot |-> slot, lamports |-> lamports, data |-> data]

\* a text frame: whether it is a JSON object, and its top-level members
TextFrame(jsonrpc, id, result, error) ==
    [json |-> TRUE, jsonrpc |-> jsonrpc, id |-> id, result |-> result,
     error |-> error]

NotJson ==
    [json |-> FALSE, jsonrpc |-> JAbsent, id |-> JAbsent, result |-> JAbsent,
     error |-> JAbsent]

LogsInvoke == JLogs(100, <<LineInvoke>>, "sigA")
LogsOther == JLogs(101, <<LineOther, LineInvoke>>, "sigB")
AccountUpdate == JAccount(200, 5000, << <<"A", "Q">>, <<"I", "D">> >>)

ErrFrame == TextFrame(JStr("2.0"), JNum(1), JAbsent, JErr(-32602, "Invalid params"))
AckFrame == TextFrame(JStr("2.0"), JNum(1), JNum(42), JAbsent)
AckShapedFrame == TextFrame(JStr("2.0"), JNum(1), LogsInvoke, JAbsent)
AckShapedAccountFrame == TextFrame(JStr("2.0"), JNum(1), AccountUpdate, JAbsent)
LogsInvokeFrame == TextFrame(JAbsent, JAbsent, LogsInvoke, JAbsent)
LogsOtherFrame == TextFrame(JAbsent, JAbsent, LogsOther, JAbsent)
AccountFrame == TextFrame(JAbsent, JAbsent, AccountUpdate, JAbsent)

TextFrames ==
    { ErrFrame, AckFrame, AckShapedFrame, AckShapedAccountFrame, LogsInvokeFrame,
      LogsOtherFrame, AccountFrame, NotJson }

\* items read.next() can yield: Some(Ok(Message)), Some(Err(e)), None
Text(f) == [k |-> "Text", text |-> f]
Ctl(k) == [k |-> k]
NoMsg == Ctl("none")

\* Message::Ping(data) as read, Message::Pong(data) as sent
Ping(data) == [k |-> "Ping", data |-> data]
Pong(data) == [pong |-> TRUE, data |-> data]

\* the payloads of the pings tried
PingPayloads == { <<>>, <<1, 2>> }

BenignItems ==
    { Text(f) : f \in TextFrames } \cup
    { Ping(d) : d \in PingPayloads } \cup
    { Ctl("Pong"), Ctl("Binary"), Ctl("Frame") }

FatalItems == { Ctl("Close"), Ctl("Err"), Ctl("End") }

\* outcomes of one JsonlWriter::write call: all steps succeed; a step fails
\* before any byte is written; a write_all fails after bytes were written
IoOutcomes == { "ok", "open_fail", "write_fail" }

(***************************************************************************)
(* src/src/event.rs and src/src/storage.rs                                 *)
(***************************************************************************)
\* LogEvent::new
LogEvent(timestamp, signature, slot, pid, logs) ==
    [timestamp |-> timestamp, signature |-> signature, slot |-> slot,
     program_id |-> pid, logs |-> logs]

\* AccountEvent::new
AccountEvent(timestamp, pubkey, slot, lamports, data) ==
    [timestamp |-> timestamp, pubkey |-> pubkey, slot |-> slot,
     lamports |-> lamports, data |-> data]

\* serde_json::to_string of an event: the members in declaration order
to_string(ev) ==
    IF "signature" \in DOMAIN ev
    THEN << <<"timestamp", ev.timestamp>>, <<"signature", ev.signature>>,
            <<"slot", ev.slot>>, <<"program_id", ev.program_id>>,
            <<"logs", ev.logs>> >>
    ELSE << <<"timestamp", ev.timestamp>>, <<"pubkey", ev.pubkey>>,
            <<"slot", ev.slot>>, <<"lamports", ev.lamports>>,
            <<"data", ev.data>> >>

\* chunks of the file: a whole serialized record; the bytes a failed
\* write_all left behind (some or all of a record, no newline); a newline
Json(ev) == [t |-> "json", kv |-> to_string(ev)]
Partial(ev) == [t |-> "partial", kv |-> to_string(ev)]
NL == [t |-> "nl"]

\* variant: the file is opened with truncate instead of append
write_truncate(f, ev, io) ==
    CASE io = "open_fail" -> [ok |-> FALSE, file |-> f]
      [] io = "write_fail" -> [ok |-> FALSE, file |-> <<Partial(ev)>>]
      [] OTHER -> [ok |-> TRUE, file |-> <<Json(ev), NL>>]

\* JsonlWriter::write: the file afterwards and whether Ok(()) was returned
write(f, ev, io) ==
    CASE io = "open_fail" -> [ok |-> FALSE, file |-> f]
      [] io = "write_fail" -> [ok |-> FALSE, file |-> Append(f, Partial(ev))]
      [] OTHER -> [ok |-> TRUE, file |-> f \o <<Json(ev), NL>>]

\* no value: the argument or the result of a function that is not called
NoValue == [t |-> "none"]

\* the callers of JsonlWriter::write on one file, and the event of a caller
\* that is not inside a call
Writers == {1, 2}
NoEvent == [t |-> "none"]

(***************************************************************************)
(* src/src/rpc.rs: frame handlers.  A handler yields                       *)
(* [ok, file, events]: whether it returned Ok(()), the file and the event  *)
(* counter afterwards.                                                     *)
(***************************************************************************)
\* serde_json::from_str::<RpcResponse>
parses_as_RpcResponse(text) ==
    /\ text.json
    /\ text.jsonrpc.t = "str"
    /\ text.id.t = "num"
    /\ text.error.t \in {"absent", "err"}

\* serde_json::from_str::<LogsNotification>
parses_as_LogsNotification(text) == text.json /\ text.result.t = "logs"

\* serde_json::from_str::<AccountNotification>
parses_as_AccountNotification(text) == text.json /\ text.result.t = "account"

\* variant: the token after "Program" is taken
extract_program_id_second_token(logs) ==
    IF logs # <<>> /\ StartsWith(Head(logs), W_Program \o SP)
                  /\ Len(split_whitespace(Head(logs))) >= 2
    THEN split_whitespace(Head(logs))[2]
    ELSE W_unknown

\* the program id heuristic of handle_logs_notification
extract_program_id(logs) ==
    IF logs # <<>> /\ StartsWith(Head(logs), W_Program \o SP)
                  /\ Len(split_whitespace(Head(logs))) >= 3
    THEN split_whitespace(Head(logs))[3]
    ELSE W_unknown

\* variant: the event counter is incremented before the write is attempted
handle_logs_notification_count_first(n, f, ev, io, now) ==
    LET event == LogEvent(now, n.signature, n.slot, extract_program_id(n.logs),
                          n.logs)
        w == write(f, event, io)
    IN  [ok |-> w.ok, file |-> w.file, events |-> ev + 1]

\* variant: an event whose record is already in the file is not written again
handle_logs_notification_dedup(n, f, ev, io, now) ==
    LET event == LogEvent(now, n.signature, n.slot, extract_program_id(n.logs),
                          n.logs)
        w == write(f, event, io)
    IN  IF \E i \in 1..Len(f) : f[i] = Json(event)
        THEN [ok |-> TRUE, file |-> f, events |-> ev]
        ELSE IF w.ok
             THEN [ok |-> TRUE, file |-> w.file, events |-> ev + 1]
             ELSE [ok |-> FALSE, file |-> w.file, events |-> ev]

handle_logs_notification(n, f, ev, io, now) ==
    LET event == LogEvent(now, n.signature, n.slot, extract_program_id(n.logs),
                          n.logs)
        w == write(f, event, io)
    IN  IF w.ok
        THEN [ok |-> TRUE, file |-> w.file, events |-> ev + 1]
        ELSE [ok |-> FALSE, file |-> w.file, events |-> ev]

\* variant: only the first data segment is kept
handle_account_notification_first_segment(n, f, ev, io, now) ==
    LET event == AccountEvent(now, W_unknown, n.slot, n.lamports,
                              IF n.data = <<>> THEN <<>> ELSE Head(n.data))
        w == write(f, event, io)
    IN  IF w.ok
        THEN [ok |-> TRUE, file |-> w.file, events |-> ev + 1]
        ELSE [ok |-> FALSE, file |-> w.file, events |-> ev]

handle_account_notification(n, f, ev, io, now) ==
    LET event == AccountEvent(now, W_unknown, n.slot, n.lamports, Join(n.data))
        w == write(f, event, io)
    IN  IF w.ok
        THEN [ok |-> TRUE, file |-> w.file, events |-> ev + 1]
        ELSE [ok |-> FALSE, file |-> w.file, events |-> ev]

\* variant: the notification shape is tried before the response envelope
handle_message_notification_first(text, f, ev, io, now) ==
    IF parses_as_LogsNotification(text)
    THEN handle_logs_notification(text.result, f, ev, io, now)
    ELSE IF parses_as_RpcResponse(text) /\ text.error.t = "err"
         THEN [ok |-> FALSE, file |-> f, events |-> ev]
         ELSE [ok |-> TRUE, file |-> f, events |-> ev]

handle_message(text, f, ev, io, now) ==
    IF parses_as_RpcResponse(text)
    THEN IF text.error.t = "err"
         THEN [ok |-> FALSE, file |-> f, events |-> ev]
         ELSE [ok |-> TRUE, file |-> f, events |-> ev]
    ELSE IF parses_as_LogsNotification(text)
         THEN handle_logs_notification(text.result, f, ev, io, now)
         ELSE [ok |-> TRUE, file |-> f, events |-> ev]

\* variant: the notification shape is tried before the response envelope
handle_account_message_notification_first(text, f, ev, io, now) ==
    IF parses_as_AccountNotification(text)
    THEN handle_account_notification(text.result, f, ev, io, now)
    ELSE IF parses_as_RpcResponse(text) /\ text.error.t = "err"
         THEN [ok |-> FALSE, file |-> f, events |-> ev]
         ELSE [ok |-> TRUE, file |-> f, events |-> ev]

\* variant: a frame of unknown shape is an error
handle_account_message_unknown_is_error(text, f, ev, io, now) ==
    IF parses_as_RpcResponse(text)
    THEN IF text.error.t = "err"
         THEN [ok |-> FALSE, file |-> f, events |-> ev]
         ELSE [ok |-> TRUE, file |-> f, events |-> ev]
    ELSE IF parses_as_AccountNotification(text)
         THEN handle_account_notification(text.result, f, ev, io, now)
         ELSE [ok |-> FALSE, file |-> f, events |-> ev]

handle_account_message(text, f, ev, io, now) ==
    IF parses_as_RpcResponse(text)
    THEN IF text.error.t = "err"
         THEN [ok |-> FALSE, file |-> f, events |-> ev]
         ELSE [ok |-> TRUE, file |-> f, events |-> ev]
    ELSE IF parses_as_AccountNotification(text)
         THEN handle_account_notification(text.result, f, ev, io, now)
         ELSE [ok |-> TRUE, file |-> f, events |-> ev]

(***************************************************************************)
(* Initial states.                                                         *)
(***************************************************************************)
\* the runs tried: the binary's entry point and the two public supervisors
\* (main runs with the default commitment; the account list decides the
\* commitment of an account run, so that all three levels are used)
Configs ==
    { [entry |-> "main", mode |-> "logs", program_id |-> p, accounts |-> None,
       commitment |-> "Finalized"] : p \in ProgramSettings } \cup
    { [entry |-> "main", mode |-> "account", program_id |-> None, accounts |-> a,
       commitment |-> "Finalized"] : a \in AccountSettings } \cup
    { [entry |-> "run_logs_subscribe", mode |-> "logs", program_id |-> p,
       accounts |-> None, commitment |-> "Confirmed"] : p \in ProgramSettings } \cup
    { [entry |-> "run_account_subscribe", mode |-> "account",
       program_id |-> None, accounts |-> a,
       commitment |-> IF a = Some(<<"a">>) THEN "Processed" ELSE "Finalized"]
        : a \in AccountSettings }

\* the file is absent and nothing has been written
InitStore ==
    /\ file = <<>>
    /\ disk = <<>>
    /\ exists = FALSE
    /\ file0 = None

InitRest ==
    /\ targets = <<>>
    /\ backoff = 0
    /\ session_result = "none"
    /\ open_conns = 0
    /\ subscription_id = 0
    /\ sent = <<>>
    /\ msg_result = NoMsg
    /\ wpc = [w \in Writers |-> "idle"]
    /\ wev = [w \in Writers |-> NoEvent]
    /\ done = <<>>
    /\ overlap = FALSE
    /\ crashed = "no"
    /\ ret = NoValue
    /\ events_total = 0
    /\ errors_total = 0
    /\ ws_connected = 0
    /\ errors_at_start = 0
    /\ handler_errors = 0
    /\ connects = 0
    /\ failures = 0
    /\ frames = 0
    /\ received = <<>>
    /\ last_item = NoMsg

Init ==
    /\ \E c \in Configs :
          /\ entry = c.entry
          /\ mode = c.mode
          /\ program_id = c.program_id
          /\ accounts = c.accounts
          /\ commitment = c.commitment
    /\ pc = "init"
    /\ attempt = 0
    /\ max_seconds = 30
    /\ InitRest
    /\ InitStore
    /\ arg = NoValue

\* the supervisor that runs: main only ever calls the logs one
Sup == IF entry = "run_account_subscribe" THEN "account" ELSE "logs"

\* the text frame is no response envelope and has the notification shape
\* of the running supervisor's mode
IsNotification(text) ==
    /\ text.json
    /\ ~(text.jsonrpc.t = "str" /\ text.id.t = "num")
    /\ text.result.t = (IF Sup = "logs" THEN "logs" ELSE "account")

\* `received` after a text frame was handled.  A notification is entered with
\* the number of the connection it came on and whether the handler returned
\* Ok(()); a frame that is neither envelope nor notification is entered as
\* such; a response envelope is not entered
Received(text, ok) ==
    CASE parses_as_RpcResponse(text) -> received
      [] IsNotification(text) ->
            Append(received, [k |-> "notification", text |-> text,
                              conn |-> connects, ok |-> ok])
      [] OTHER -> Append(received, [k |-> "unrecognized"])

config_vars == <<entry, mode, program_id, accounts, commitment, max_seconds>>
session_vars ==
    <<session_result, open_conns, subscription_id, sent, msg_result>>
metric_vars == <<events_total, errors_total, ws_connected>>
ghost_vars ==
    <<errors_at_start, handler_errors, connects, failures, frames, received>>
sink_vars == <<wpc, wev, done, disk, exists, file0, overlap, crashed>>
fn_vars == <<arg, ret>>
run_vars ==
    <<targets, pc, attempt, backoff, config_vars, session_vars, metric_vars,
      ghost_vars, last_item, fn_vars>>

(***************************************************************************)
(* src/src/main.rs and the heads of the supervisors.                       *)
(***************************************************************************)
\* run_logs_subscribe up to the loop: unwrap of program_id, attempt = 0
EnterLogs ==
    /\ pc' = IF program_id.some THEN "loop" ELSE "panicked"
    /\ attempt' = 0
    /\ UNCHANGED <<targets, backoff, file>>
    /\ UNCHANGED <<last_item, fn_vars, sink_vars, config_vars, session_vars,
                   metric_vars, ghost_vars>>

\* variant: the account arm of the match calls the account supervisor
Main_runs_account ==
    /\ pc = "init"
    /\ entry = "main"
    /\ IF load_ok(mode, program_id, accounts) /\ mode = "logs"
       THEN EnterLogs
       ELSE /\ pc' = IF load_ok(mode, program_id, accounts) THEN "loop"
                     ELSE "main_error"
            /\ targets' = IF load_ok(mode, program_id, accounts)
                          THEN parse_accounts(accounts) ELSE targets
            /\ UNCHANGED <<attempt, backoff, file>>
            /\ UNCHANGED <<last_item, fn_vars, sink_vars, config_vars, session_vars,
                           metric_vars, ghost_vars>>

\* main: Config::load, then the match on config.mode
Main ==
    /\ pc = "init"
    /\ entry = "main"
    /\ IF load_ok(mode, program_id, accounts) /\ mode = "logs"
       THEN EnterLogs
       ELSE /\ pc' = "main_error"
            /\ UNCHANGED <<targets, attempt, backoff, file>>
            /\ UNCHANGED <<last_item, fn_vars, sink_vars, config_vars, session_vars,
                   metric_vars, ghost_vars>>

RunLogsSubscribe ==
    /\ pc = "init"
    /\ entry = "run_logs_subscribe"
    /\ EnterLogs

RunAccountSubscribe ==
    /\ pc = "init"
    /\ entry = "run_account_subscribe"
    /\ targets' = parse_accounts(accounts)
    /\ pc' = IF parse_accounts(accounts) = <<>> THEN "config_error" ELSE "loop"
    /\ attempt' = 0
    /\ UNCHANGED <<backoff, file>>
    /\ UNCHANGED <<last_item, fn_vars, sink_vars, config_vars, session_vars,
                   metric_vars, ghost_vars>>

(***************************************************************************)
(* One session: try_logs_subscribe / try_account_subscribe.  The two       *)
(* functions differ in the subscribe requests and in the text handler.     *)
(***************************************************************************)
\* the messages of the errors a session returns
ErrMessages ==
    { "Failed to connect to WebSocket", "Failed to send subscription request",
      "Failed to send pong", "WebSocket closed by server", "WebSocket error",
      "WebSocket stream ended" }

\* variant: the connection of the failed session stays open
Bail_leak(e) ==
    /\ session_result' = e
    /\ open_conns' = open_conns
    /\ sent' = <<>>
    /\ msg_result' = NoMsg
    /\ pc' = "returned"
    /\ UNCHANGED subscription_id

\* the function returns Err(e): ws_stream and its halves, if the handshake
\* had produced them, are dropped
Bail(e) ==
    /\ session_result' = e
    /\ open_conns' = IF pc = "connecting" THEN open_conns ELSE open_conns - 1
    /\ sent' = <<>>
    /\ msg_result' = NoMsg
    /\ pc' = "returned"
    /\ UNCHANGED subscription_id

\* the function returns Ok(()); no path of the code does
ReturnOk ==
    /\ session_result' = "Ok"
    /\ open_conns' = IF pc = "connecting" THEN open_conns ELSE open_conns - 1
    /\ sent' = <<>>
    /\ msg_result' = NoMsg
    /\ pc' = "returned"
    /\ UNCHANGED subscription_id

\* the environment may make the session fail: a run with non-fatal frames
\* has up to MaxBusyFailures failures, a run without them up to MaxFailures
MayFail ==
    \/ failures < MaxBusyFailures
    \/ frames = 0 /\ failures < MaxFailures

\* variant: the gauge is raised before the handshake
SessionStart_gauge_up ==
    /\ pc = "loop"
    /\ pc' = "connecting"
    /\ ws_connected' = 1
    /\ errors_at_start' = errors_total
    /\ handler_errors' = 0
    /\ connects' = connects + 1
    /\ UNCHANGED <<targets, attempt, backoff, file, events_total, errors_total,
                   failures, frames, received>>
    /\ UNCHANGED <<last_item, fn_vars, sink_vars, config_vars, session_vars>>

\* entry of the session: gauge to 0, then connect_async is awaited
SessionStart ==
    /\ pc = "loop"
    /\ pc' = "connecting"
    /\ ws_connected' = 0
    /\ errors_at_start' = errors_total
    /\ handler_errors' = 0
    /\ connects' = connects + 1
    /\ UNCHANGED <<targets, attempt, backoff, file, events_total, errors_total,
                   failures, frames, received>>
    /\ UNCHANGED <<last_item, fn_vars, sink_vars, config_vars, session_vars>>

ConnectOk ==
    /\ pc = "connecting"
    /\ pc' = "subscribing"
    /\ ws_connected' = 1
    /\ open_conns' = open_conns + 1
    /\ subscription_id' = 1
    /\ sent' = <<>>
    /\ UNCHANGED <<targets, attempt, backoff, file, events_total, errors_total,
                   session_result, msg_result>>
    /\ UNCHANGED <<last_item, fn_vars, sink_vars, config_vars, ghost_vars>>

ConnectFail ==
    /\ pc = "connecting"
    /\ MayFail
    /\ failures' = failures + 1
    /\ Bail("Failed to connect to WebSocket")
    /\ UNCHANGED <<targets, attempt, backoff, file, errors_at_start,
                   handler_errors, connects, frames, received>>
    /\ UNCHANGED <<last_item, fn_vars, sink_vars, config_vars, metric_vars>>

\* the subscribe request with the given id
SubscribeRequest(id) ==
    IF Sup = "logs"
    THEN [jsonrpc |-> "2.0", id |-> id, method |-> "logsSubscribe",
          target |-> program_id.v,
          commitment |-> commitment_as_str(commitment), encoding |-> "none"]
    ELSE [jsonrpc |-> "2.0", id |-> id, method |-> "accountSubscribe",
          target |-> targets[id],
          commitment |-> commitment_as_str(commitment), encoding |-> "base64"]

\* one write.send of a subscribe request succeeds
SendSubscribe ==
    /\ pc = "subscribing"
    /\ sent' = Append(sent, SubscribeRequest(subscription_id))
    /\ IF Sup = "logs"
       THEN /\ pc' = "reading"
            /\ UNCHANGED subscription_id
       ELSE /\ subscription_id' = subscription_id + 1
            /\ pc' = IF subscription_id = Len(targets)
                     THEN "reading" ELSE "subscribing"
    /\ UNCHANGED <<targets, attempt, backoff, file, session_result, open_conns,
                   msg_result>>
    /\ UNCHANGED <<last_item, fn_vars, sink_vars, config_vars, metric_vars, ghost_vars>>

\* one write.send of a subscribe request fails
SendSubscribeFail ==
    /\ pc = "subscribing"
    /\ MayFail
    /\ failures' = failures + 1
    /\ Bail("Failed to send subscription request")
    /\ UNCHANGED <<targets, attempt, backoff, file, errors_at_start,
                   handler_errors, connects, frames, received>>
    /\ UNCHANGED <<last_item, fn_vars, sink_vars, config_vars, metric_vars>>

\* read.next().await yields an item
ReadNext ==
    /\ pc = "reading"
    /\ \/ /\ frames < MaxFrames
          /\ failures < MaxBusyFailures
          /\ frames' = frames + 1
          /\ UNCHANGED failures
          /\ \E m \in BenignItems : msg_result' = m
       \/ /\ MayFail
          /\ failures' = failures + 1
          /\ UNCHANGED frames
          /\ \E m \in FatalItems : msg_result' = m
    /\ pc' = "handling"
    /\ last_item' = NoMsg
    /\ UNCHANGED <<targets, attempt, backoff, file, session_result, open_conns,
                   subscription_id, sent, errors_at_start, handler_errors,
                   connects, received>>
    /\ UNCHANGED <<fn_vars, sink_vars, config_vars, metric_vars>>

\* variant: the handler's error is returned to the supervisor
HandleTextFatal ==
    /\ pc = "handling"
    /\ last_item' = msg_result
    /\ msg_result.k = "Text"
    /\ \E io \in IoOutcomes, now \in Timestamps :
          LET r == IF Sup = "logs"
                   THEN handle_message(msg_result.text, file, events_total, io, now)
                   ELSE handle_account_message(msg_result.text, file,
                                               events_total, io, now)
          IN  /\ file' = r.file
              /\ events_total' = r.events
              /\ errors_total' = IF r.ok THEN errors_total ELSE errors_total + 1
              /\ handler_errors' = IF r.ok THEN handler_errors ELSE handler_errors + 1
              /\ received' = Received(msg_result.text, r.ok)
              /\ IF r.ok
                 THEN /\ msg_result' = NoMsg
                      /\ pc' = "reading"
                      /\ UNCHANGED <<session_result, open_conns, subscription_id, sent>>
                 ELSE Bail("Error handling message")
    /\ UNCHANGED <<targets, attempt, backoff, ws_connected>>
    /\ UNCHANGED <<fn_vars, sink_vars, config_vars, errors_at_start, connects,
                   failures, frames>>

\* Ok(Message::Text(text)): the handler runs; its error is counted, not returned
HandleText ==
    /\ pc = "handling"
    /\ last_item' = msg_result
    /\ msg_result.k = "Text"
    /\ \E io \in IoOutcomes, now \in Timestamps :
          LET r == IF Sup = "logs"
                   THEN handle_message(msg_result.text, file, events_total, io, now)
                   ELSE handle_account_message(msg_result.text, file,
                                               events_total, io, now)
          IN  /\ file' = r.file
              /\ events_total' = r.events
              /\ errors_total' = IF r.ok THEN errors_total ELSE errors_total + 1
              /\ handler_errors' = IF r.ok THEN handler_errors ELSE handler_errors + 1
              /\ received' = Received(msg_result.text, r.ok)
    /\ msg_result' = NoMsg
    /\ pc' = "reading"
    /\ UNCHANGED <<targets, attempt, backoff, session_result, open_conns,
                   subscription_id, sent, ws_connected>>
    /\ UNCHANGED <<fn_vars, sink_vars, config_vars, errors_at_start, connects,
                   failures, frames>>

\* variant: the pong is sent without the payload of the ping
HandlePing_empty_pong ==
    /\ pc = "handling"
    /\ last_item' = msg_result
    /\ msg_result.k = "Ping"
    /\ sent' = Append(sent, Pong(<<>>))
    /\ msg_result' = NoMsg
    /\ pc' = "reading"
    /\ UNCHANGED <<targets, attempt, backoff, file, session_result, open_conns,
                   subscription_id>>
    /\ UNCHANGED <<fn_vars, sink_vars, config_vars, metric_vars, ghost_vars>>

\* Ok(Message::Ping(data)): the pong is sent
HandlePing ==
    /\ pc = "handling"
    /\ last_item' = msg_result
    /\ msg_result.k = "Ping"
    /\ sent' = Append(sent, Pong(msg_result.data))
    /\ msg_result' = NoMsg
    /\ pc' = "reading"
    /\ UNCHANGED <<targets, attempt, backoff, file, session_result, open_conns,
                   subscription_id>>
    /\ UNCHANGED <<fn_vars, sink_vars, config_vars, metric_vars, ghost_vars>>

\* Ok(Message::Ping(data)): sending the pong fails
HandlePingFail ==
    /\ pc = "handling"
    /\ msg_result.k = "Ping"
    /\ MayFail
    /\ failures' = failures + 1
    /\ Bail("Failed to send pong")
    /\ UNCHANGED <<targets, attempt, backoff, file, errors_at_start,
                   handler_errors, connects, frames, received>>
    /\ UNCHANGED <<last_item, fn_vars, sink_vars, config_vars, metric_vars>>

\* variant: a binary frame ends the session
HandleIgnored_binary_fatal ==
    /\ pc = "handling"
    /\ last_item' = msg_result
    /\ msg_result.k \in {"Pong", "Binary", "Frame"}
    /\ IF msg_result.k = "Binary"
       THEN Bail("Unexpected binary message")
       ELSE /\ msg_result' = NoMsg
            /\ pc' = "reading"
            /\ UNCHANGED <<session_result, open_conns, subscription_id, sent>>
    /\ UNCHANGED <<targets, attempt, backoff, file>>
    /\ UNCHANGED <<fn_vars, sink_vars, config_vars, metric_vars, ghost_vars>>

\* Ok(Message::Pong(_)), Ok(Message::Binary(_)), Ok(Message::Frame(_))
HandleIgnored ==
    /\ pc = "handling"
    /\ last_item' = msg_result
    /\ msg_result.k \in {"Pong", "Binary", "Frame"}
    /\ msg_result' = NoMsg
    /\ pc' = "reading"
    /\ UNCHANGED <<targets, attempt, backoff, file, session_result, open_conns,
                   subscription_id, sent>>
    /\ UNCHANGED <<fn_vars, sink_vars, config_vars, metric_vars, ghost_vars>>

\* variant: the close frame ends the session with Ok(())
HandleCloseOk ==
    /\ pc = "handling"
    /\ msg_result.k = "Close"
    /\ ws_connected' = 0
    /\ ReturnOk
    /\ UNCHANGED <<targets, attempt, backoff, file, events_total, errors_total>>
    /\ UNCHANGED <<last_item, fn_vars, sink_vars, config_vars, ghost_vars>>

\* Ok(Message::Close(_))
HandleClose ==
    /\ pc = "handling"
    /\ msg_result.k = "Close"
    /\ ws_connected' = 0
    /\ Bail("WebSocket closed by server")
    /\ UNCHANGED <<targets, attempt, backoff, file, events_total, errors_total>>
    /\ UNCHANGED <<last_item, fn_vars, sink_vars, config_vars, ghost_vars>>

\* variant: the session does not count the read error
HandleErr_no_count ==
    /\ pc = "handling"
    /\ msg_result.k = "Err"
    /\ errors_total' = errors_total
    /\ ws_connected' = 0
    /\ Bail("WebSocket error")
    /\ UNCHANGED <<targets, attempt, backoff, file, events_total>>
    /\ UNCHANGED <<last_item, fn_vars, sink_vars, config_vars, ghost_vars>>

\* Err(e) from the stream
HandleErr ==
    /\ pc = "handling"
    /\ msg_result.k = "Err"
    /\ errors_total' = errors_total + 1
    /\ ws_connected' = 0
    /\ Bail("WebSocket error")
    /\ UNCHANGED <<targets, attempt, backoff, file, events_total>>
    /\ UNCHANGED <<last_item, fn_vars, sink_vars, config_vars, ghost_vars>>

\* None from the stream: the while-let loop ends and the function bails
HandleEnd ==
    /\ pc = "handling"
    /\ msg_result.k = "End"
    /\ Bail("WebSocket stream ended")
    /\ UNCHANGED <<targets, attempt, backoff, file>>
    /\ UNCHANGED <<last_item, fn_vars, sink_vars, config_vars, metric_vars, ghost_vars>>

(***************************************************************************)
(* The supervisor loop of run_logs_subscribe / run_account_subscribe.      *)
(***************************************************************************)
\* variant: the supervisor does not count the failure
SupervisorOnReturn_no_count ==
    /\ pc = "returned"
    /\ IF session_result = "Ok"
       THEN /\ pc' = "exited"
            /\ UNCHANGED <<attempt, backoff, metric_vars>>
       ELSE /\ ws_connected' = 0
            /\ backoff' = calculate_backoff(attempt, 30)
            /\ attempt' = attempt + 1
            /\ pc' = "sleeping"
            /\ UNCHANGED <<events_total, errors_total>>
    /\ UNCHANGED <<targets, file>>
    /\ UNCHANGED <<last_item, fn_vars, sink_vars, config_vars, session_vars, ghost_vars>>

\* the match on the session's result, up to the sleep
SupervisorOnReturn ==
    /\ pc = "returned"
    /\ IF session_result = "Ok"
       THEN /\ pc' = "exited"
            /\ UNCHANGED <<attempt, backoff, metric_vars>>
       ELSE /\ errors_total' = errors_total + 1
            /\ ws_connected' = 0
            /\ backoff' = calculate_backoff(attempt, 30)
            /\ attempt' = attempt + 1
            /\ pc' = "sleeping"
            /\ UNCHANGED events_total
    /\ UNCHANGED <<targets, file>>
    /\ UNCHANGED <<last_item, fn_vars, sink_vars, config_vars, session_vars, ghost_vars>>

\* variant: the supervisor gives up after the tenth attempt
Wake_give_up ==
    /\ pc = "sleeping"
    /\ attempt' = attempt
    /\ session_result' = "none"
    /\ pc' = IF attempt >= 10 THEN "exited" ELSE "loop"
    /\ UNCHANGED <<targets, backoff, file, open_conns, subscription_id, sent,
                   msg_result>>
    /\ UNCHANGED <<last_item, fn_vars, sink_vars, config_vars, metric_vars, ghost_vars>>

\* variant: attempt is never reset
Wake_no_reset ==
    /\ pc = "sleeping"
    /\ attempt' = attempt
    /\ session_result' = "none"
    /\ pc' = "loop"
    /\ UNCHANGED <<targets, backoff, file, open_conns, subscription_id, sent,
                   msg_result>>
    /\ UNCHANGED <<last_item, fn_vars, sink_vars, config_vars, metric_vars, ghost_vars>>

\* the sleep is over: the reset of attempt, then back to the top of the loop
Wake ==
    /\ pc = "sleeping"
    /\ attempt' = IF attempt >= 10 THEN 0 ELSE attempt
    /\ session_result' = "none"
    /\ pc' = "loop"
    /\ UNCHANGED <<targets, backoff, file, open_conns, subscription_id, sent,
                   msg_result>>
    /\ UNCHANGED <<last_item, fn_vars, sink_vars, config_vars, metric_vars, ghost_vars>>

Next ==
    \/ Main
    \/ RunLogsSubscribe
    \/ RunAccountSubscribe
    \/ SessionStart
    \/ ConnectOk
    \/ ConnectFail
    \/ SendSubscribe
    \/ SendSubscribeFail
    \/ ReadNext
    \/ HandleText
    \/ HandlePing
    \/ HandlePingFail
    \/ HandleIgnored
    \/ HandleClose
    \/ HandleErr
    \/ HandleEnd
    \/ SupervisorOnReturn
    \/ Wake

Spec == Init /\ [][Next]_vars

\* the task is always scheduled again, and a sleep always ends
Fairness ==
    /\ WF_vars(SessionStart)
    /\ WF_vars(SupervisorOnReturn)
    /\ WF_vars(Wake)

LiveSpec == Init /\ [][Next]_vars /\ Fairness

(***************************************************************************)
(* calculate_backoff on its own, over a range of arguments.                *)
(***************************************************************************)
InitBackoff ==
    /\ entry = "calculate_backoff"
    /\ mode = "logs"
    /\ program_id = None
    /\ accounts = None
    /\ commitment = "Finalized"
    /\ pc = "backoff_call"
    /\ max_seconds \in 1..MaxCapArg
    /\ InitRest
    /\ InitStore
    /\ arg = NoValue
    /\ attempt \in (0..MaxAttemptArg) \cup {2147483647}

\* one call calculate_backoff(attempt, max_seconds)
BackoffCall ==
    /\ pc = "backoff_call"
    /\ backoff' = calculate_backoff(attempt, max_seconds)
    /\ pc' = "backoff_ret"
    /\ UNCHANGED <<targets, attempt, file>>
    /\ UNCHANGED <<last_item, fn_vars, sink_vars, config_vars, session_vars,
                   metric_vars, ghost_vars>>

NextBackoff == BackoffCall

SpecBackoff == InitBackoff /\ [][NextBackoff]_vars

(***************************************************************************)
(* src/src/storage.rs: JsonlWriter::write step by step.  Two callers share *)
(* the file; `file` is what a reader of the file sees (the page cache),    *)
(* `disk` what has reached stable storage.  Every step of a call succeeds  *)
(* here; the failing outcomes of a call are those of `write` above.        *)
(***************************************************************************)
EvA == LogEvent("2024-01-01T00:00:00Z", "sigA", 100, W_7xyz, <<LineInvoke>>)
EvB == AccountEvent("2024-01-01T00:00:00Z", W_unknown, 200, 5000,
                    <<"A", "Q", "I", "D">>)
EvOld == LogEvent("2023-12-31T00:00:00Z", "sig0", 99, W_unknown, <<>>)

\* the events the callers pass
SinkEvents == { EvA, EvB }

\* the file before the first call: absent, empty, or holding one line
InitialFiles == { None, Some(<<>>), Some(<<Json(EvOld), NL>>) }

InitSink ==
    /\ entry = "write"
    /\ mode = "logs"
    /\ program_id = None
    /\ accounts = None
    /\ commitment = "Finalized"
    /\ pc = "sink"
    /\ attempt = 0
    /\ max_seconds = 30
    /\ InitRest
    /\ arg = NoValue
    /\ \E f0 \in InitialFiles :
          /\ file0 = f0
          /\ exists = f0.some
          /\ file = (IF f0.some THEN f0.v ELSE <<>>)
          /\ disk = (IF f0.some THEN f0.v ELSE <<>>)

\* the number of calls in progress
InFlight == Cardinality({ w \in Writers : wpc[w] \notin {"idle", "dead"} })

\* a caller enters write: the event is serialized and the file is opened
\* with create(true).append(true)
SinkOpen ==
    /\ pc = "sink"
    /\ crashed = "no"
    /\ Len(done) + InFlight < MaxAppends
    /\ \E w \in Writers, ev \in SinkEvents :
          /\ wpc[w] = "idle"
          /\ wpc' = [wpc EXCEPT ![w] = "opened"]
          /\ wev' = [wev EXCEPT ![w] = ev]
    /\ exists' = TRUE
    /\ overlap' = (overlap \/ InFlight > 0)
    /\ UNCHANGED <<file, done, disk, file0, crashed, run_vars>>

\* writer.write_all(json.as_bytes())
SinkWriteJson ==
    /\ crashed = "no"
    /\ \E w \in Writers :
          /\ wpc[w] = "opened"
          /\ wpc' = [wpc EXCEPT ![w] = "json"]
          /\ file' = Append(file, Json(wev[w]))
    /\ UNCHANGED <<wev, done, disk, exists, file0, overlap, crashed, run_vars>>

\* variant: the newline is not written
SinkWriteNewline_skip ==
    /\ crashed = "no"
    /\ \E w \in Writers :
          /\ wpc[w] = "json"
          /\ wpc' = [wpc EXCEPT ![w] = "nl"]
          /\ file' = file
    /\ UNCHANGED <<wev, done, disk, exists, file0, overlap, crashed, run_vars>>

\* writer.write_all(b"\n")
SinkWriteNewline ==
    /\ crashed = "no"
    /\ \E w \in Writers :
          /\ wpc[w] = "json"
          /\ wpc' = [wpc EXCEPT ![w] = "nl"]
          /\ file' = Append(file, NL)
    /\ UNCHANGED <<wev, done, disk, exists, file0, overlap, crashed, run_vars>>

\* writer.flush(), which does nothing for a File, and the return of Ok(())
SinkReturn ==
    /\ crashed = "no"
    /\ \E w \in Writers :
          /\ wpc[w] = "nl"
          /\ wpc' = [wpc EXCEPT ![w] = "idle"]
          /\ wev' = [wev EXCEPT ![w] = NoEvent]
          /\ done' = Append(done, wev[w])
    /\ UNCHANGED <<file, disk, exists, file0, overlap, crashed, run_vars>>

\* the operating system writes more of the file to stable storage
Writeback ==
    /\ pc = "sink"
    /\ Len(disk) < Len(file)
    /\ \E k \in (Len(disk) + 1)..Len(file) : disk' = SubSeq(file, 1, k)
    /\ UNCHANGED <<file, wpc, wev, done, exists, file0, overlap, crashed, run_vars>>

\* the process is killed, or the machine loses power: the callers are gone,
\* and after a loss of power the file is what had reached stable storage
Crash ==
    /\ pc = "sink"
    /\ crashed = "no"
    /\ \E kind \in {"process", "system"} :
          /\ crashed' = kind
          /\ file' = (IF kind = "system" THEN disk ELSE file)
    /\ wpc' = [w \in Writers |-> "dead"]
    /\ UNCHANGED <<wev, done, disk, exists, file0, overlap, run_vars>>

NextSink ==
    \/ SinkOpen
    \/ SinkWriteJson
    \/ SinkWriteNewline
    \/ SinkReturn
    \/ Writeback
    \/ Crash

SpecSink == InitSink /\ [][NextSink]_vars

(***************************************************************************)
(* serde_json on the two event types, character by character: to_string    *)
(* as derived by Serialize, from_str as derived by Deserialize.  A String  *)
(* is a sequence of one-character strings here.                            *)
(***************************************************************************)
QUOTE == "\""
BACKSLASH == "\\"

K_timestamp == <<"t", "i", "m", "e", "s", "t", "a", "m", "p">>
K_signature == <<"s", "i", "g", "n", "a", "t", "u", "r", "e">>
K_slot == <<"s", "l", "o", "t">>
K_program_id == <<"p", "r", "o", "g", "r", "a", "m", "_", "i", "d">>
K_logs == <<"l", "o", "g", "s">>
K_pubkey == <<"p", "u", "b", "k", "e", "y">>
K_lamports == <<"l", "a", "m", "p", "o", "r", "t", "s">>
K_data == <<"d", "a", "t", "a">>

DigitChars == <<"0", "1", "2", "3", "4", "5", "6", "7", "8", "9">>

\* variant: the backslash is written as it is
EscapeChar_raw_backslash(c) ==
    CASE c = QUOTE -> <<BACKSLASH, QUOTE>>
      [] c = "\n" -> <<BACKSLASH, "n">>
      [] c = "\t" -> <<BACKSLASH, "t">>
      [] OTHER -> <<c>>

\* the escape serde_json writes for one character of a string
EscapeChar(c) ==
    CASE c = QUOTE -> <<BACKSLASH, QUOTE>>
      [] c = BACKSLASH -> <<BACKSLASH, BACKSLASH>>
      [] c = "\n" -> <<BACKSLASH, "n">>
      [] c = "\t" -> <<BACKSLASH, "t">>
      [] OTHER -> <<c>>

RECURSIVE Escape(_)
Escape(str) ==
    IF str = <<>> THEN <<>> ELSE EscapeChar(Head(str)) \o Escape(Tail(str))

\* Serializer::serialize_str
JsonString(str) == <<QUOTE>> \o Escape(str) \o <<QUOTE>>

\* Serializer::serialize_u64: the decimal digits
RECURSIVE JsonNumber(_)
JsonNumber(n) ==
    IF n < 10 THEN <<DigitChars[n + 1]>>
    ELSE JsonNumber(n \div 10) \o <<DigitChars[(n % 10) + 1]>>

\* the elements of a Vec<String>, separated by commas
RECURSIVE JsonElements(_)
JsonElements(strs) ==
    IF strs = <<>> THEN <<>>
    ELSE IF Len(strs) = 1 THEN JsonString(Head(strs))
         ELSE JsonString(Head(strs)) \o <<",">> \o JsonElements(Tail(strs))

JsonArray(strs) == <<"[">> \o JsonElements(strs) \o <<"]">>

JsonMember(key, value) == JsonString(key) \o <<":">> \o value

\* serde_json::to_string(&event): the members in declaration order
to_json(ev) ==
    IF "signature" \in DOMAIN ev
    THEN <<"{">> \o JsonMember(K_timestamp, JsonString(ev.timestamp)) \o <<",">>
               \o JsonMember(K_signature, JsonString(ev.signature)) \o <<",">>
               \o JsonMember(K_slot, JsonNumber(ev.slot)) \o <<",">>
               \o JsonMember(K_program_id, JsonString(ev.program_id)) \o <<",">>
               \o JsonMember(K_logs, JsonArray(ev.logs)) \o <<"}">>
    ELSE <<"{">> \o JsonMember(K_timestamp, JsonString(ev.timestamp)) \o <<",">>
               \o JsonMember(K_pubkey, JsonString(ev.pubkey)) \o <<",">>
               \o JsonMember(K_slot, JsonNumber(ev.slot)) \o <<",">>
               \o JsonMember(K_lamports, JsonNumber(ev.lamports)) \o <<",">>
               \o JsonMember(K_data, JsonString(ev.data)) \o <<"}">>

\* a parse step: whether it succeeded, the value, the position after it
ParseFail == [ok |-> FALSE, v |-> <<>>, next |-> 0]
ParseOk(v, next) == [ok |-> TRUE, v |-> v, next |-> next]

\* Deserializer::parse_str, from the character after the opening quote
RECURSIVE ParseString(_, _, _)
ParseString(s, i, acc) ==
    IF i > Len(s) THEN ParseFail
    ELSE IF s[i] = QUOTE THEN ParseOk(acc, i + 1)
    ELSE IF s[i] = BACKSLASH
         THEN IF i + 1 > Len(s) THEN ParseFail
              ELSE CASE s[i + 1] = QUOTE -> ParseString(s, i + 2, Append(acc, QUOTE))
                     [] s[i + 1] = BACKSLASH ->
                            ParseString(s, i + 2, Append(acc, BACKSLASH))
                     [] s[i + 1] = "n" -> ParseString(s, i + 2, Append(acc, "\n"))
                     [] s[i + 1] = "t" -> ParseString(s, i + 2, Append(acc, "\t"))
                     [] OTHER -> ParseFail
    ELSE IF s[i] \in {"\n", "\t"} THEN ParseFail
    ELSE ParseString(s, i + 1, Append(acc, s[i]))

DigitValue(c) == (CHOOSE d \in 1..10 : DigitChars[d] = c) - 1

IsDigit(c) == \E d \in 1..10 : DigitChars[d] = c

\* Deserializer::parse_integer for a u64
RECURSIVE ParseNumber(_, _, _, _)
ParseNumber(s, i, acc, any) ==
    IF i <= Len(s) /\ IsDigit(s[i])
    THEN ParseNumber(s, i + 1, acc * 10 + DigitValue(s[i]), TRUE)
    ELSE IF any THEN ParseOk(acc, i) ELSE ParseFail

\* the elements of a Vec<String>, from the character after "[" or ",";
\* ElementsAfter continues once the string r of an element has been parsed
RECURSIVE ParseElements(_, _, _, _)
RECURSIVE ElementsAfter(_, _, _)
ParseElements(s, i, acc, first) ==
    IF i > Len(s) THEN ParseFail
    ELSE IF first /\ s[i] = "]" THEN ParseOk(acc, i + 1)
    ELSE IF s[i] # QUOTE THEN ParseFail
    ELSE ElementsAfter(s, ParseString(s, i + 1, <<>>), acc)

ElementsAfter(s, r, acc) ==
    IF ~r.ok \/ r.next > Len(s) THEN ParseFail
    ELSE IF s[r.next] = ","
         THEN ParseElements(s, r.next + 1, Append(acc, r.v), FALSE)
    ELSE IF s[r.next] = "]"
         THEN ParseOk(Append(acc, r.v), r.next + 1)
    ELSE ParseFail

\* the parse step r with its value tagged by the type
Tagged(r, type) ==
    IF r.ok THEN ParseOk([t |-> type, x |-> r.v], r.next) ELSE ParseFail

\* one JSON value at position i, tagged by its type
ParseValue(s, i) ==
    IF i > Len(s) THEN ParseFail
    ELSE IF s[i] = QUOTE THEN Tagged(ParseString(s, i + 1, <<>>), "string")
    ELSE IF s[i] = "[" THEN Tagged(ParseElements(s, i + 1, <<>>, TRUE), "array")
    ELSE Tagged(ParseNumber(s, i, 0, FALSE), "number")

\* the members of an object, from the character after "{" or ",";
\* MembersAfterKey continues once the key k has been parsed, and
\* MembersAfterValue once its value v has been
RECURSIVE ParseMembers(_, _, _)
RECURSIVE MembersAfterKey(_, _, _)
RECURSIVE MembersAfterValue(_, _, _, _)
ParseMembers(s, i, acc) ==
    IF i > Len(s) \/ s[i] # QUOTE THEN ParseFail
    ELSE MembersAfterKey(s, ParseString(s, i + 1, <<>>), acc)

MembersAfterKey(s, k, acc) ==
    IF ~k.ok \/ k.next > Len(s) \/ s[k.next] # ":" THEN ParseFail
    ELSE MembersAfterValue(s, k.v, ParseValue(s, k.next + 1), acc)

MembersAfterValue(s, key, v, acc) ==
    IF ~v.ok \/ v.next > Len(s) THEN ParseFail
    ELSE IF s[v.next] = ","
         THEN ParseMembers(s, v.next + 1, Append(acc, [key |-> key, value |-> v.v]))
    ELSE IF s[v.next] = "}"
         THEN ParseOk(Append(acc, [key |-> key, value |-> v.v]), v.next + 1)
    ELSE ParseFail

\* the parse r of the members is that of the whole text
WholeText(s, r) == IF r.ok /\ r.next = Len(s) + 1 THEN r ELSE ParseFail

\* the members of the object that is the whole text
ParseObject(s) ==
    IF s = <<>> \/ s[1] # "{" THEN ParseFail ELSE WholeText(s, ParseMembers(s, 2, <<>>))

\* the member named key is present once and has the type
HasMember(members, key, type) ==
    /\ Cardinality({ i \in 1..Len(members) : members[i].key = key }) = 1
    /\ \A i \in 1..Len(members) :
          members[i].key = key => members[i].value.t = type

MemberValue(members, key) ==
    members[CHOOSE i \in 1..Len(members) : members[i].key = key].value.x

\* the derived Deserialize of LogEvent, on the parsed object r
LogEventOf(r) ==
    IF /\ r.ok
       /\ HasMember(r.v, K_timestamp, "string")
       /\ HasMember(r.v, K_signature, "string")
       /\ HasMember(r.v, K_slot, "number")
       /\ HasMember(r.v, K_program_id, "string")
       /\ HasMember(r.v, K_logs, "array")
    THEN [ok |-> TRUE,
          ev |-> LogEvent(MemberValue(r.v, K_timestamp),
                          MemberValue(r.v, K_signature),
                          MemberValue(r.v, K_slot),
                          MemberValue(r.v, K_program_id),
                          MemberValue(r.v, K_logs))]
    ELSE [ok |-> FALSE, ev |-> NoValue]

\* serde_json::from_str::<LogEvent>
from_str_LogEvent(s) == LogEventOf(ParseObject(s))

\* the derived Deserialize of AccountEvent, on the parsed object r
AccountEventOf(r) ==
    IF /\ r.ok
       /\ HasMember(r.v, K_timestamp, "string")
       /\ HasMember(r.v, K_pubkey, "string")
       /\ HasMember(r.v, K_slot, "number")
       /\ HasMember(r.v, K_lamports, "number")
       /\ HasMember(r.v, K_data, "string")
    THEN [ok |-> TRUE,
          ev |-> AccountEvent(MemberValue(r.v, K_timestamp),
                              MemberValue(r.v, K_pubkey),
                              MemberValue(r.v, K_slot),
                              MemberValue(r.v, K_lamports),
                              MemberValue(r.v, K_data))]
    ELSE [ok |-> FALSE, ev |-> NoValue]

\* serde_json::from_str::<AccountEvent>
from_str_AccountEvent(s) == AccountEventOf(ParseObject(s))

\* the test of event.rs: the text, and what from_str makes of it
RoundTrip(ev, json) ==
    [t |-> "parsed", json |-> json,
     back |-> IF "signature" \in DOMAIN ev THEN from_str_LogEvent(json)
                                          ELSE from_str_AccountEvent(json)]

(***************************************************************************)
(* Functions called on their own, over a range of arguments: the program   *)
(* id heuristic of handle_logs_notification, and serde_json::to_string     *)
(* followed by serde_json::from_str on the two event types.                *)
(***************************************************************************)
TAB == <<"\t">>

\* log lines tried as the first line, each with its whitespace-separated
\* tokens written out
ExtractLines ==
    << [line |-> LineInvoke,
        tokens |-> <<W_Program, W_7xyz, W_invoke, W_depth>>],
       [line |-> LineOther, tokens |-> <<W_Transfer, W_depth>>],
       [line |-> W_Program \o SP \o <<"l", "o", "g", ":">> \o SP \o <<"h", "i">>,
        tokens |-> <<W_Program, <<"l", "o", "g", ":">>, <<"h", "i">> >>],
       [line |-> W_Program \o SP \o <<"x">>, tokens |-> <<W_Program, <<"x">> >>],
       [line |-> W_Program \o SP, tokens |-> <<W_Program>>],
       [line |-> W_Program \o SP \o SP \o <<"a">> \o SP \o SP \o <<"b">>,
        tokens |-> <<W_Program, <<"a">>, <<"b">> >>],
       [line |-> W_Program \o <<"s">> \o SP \o <<"a">> \o SP \o <<"b">>,
        tokens |-> <<W_Program \o <<"s">>, <<"a">>, <<"b">> >>],
       [line |-> SP \o W_Program \o SP \o <<"a">> \o SP \o <<"b">>,
        tokens |-> <<W_Program, <<"a">>, <<"b">> >>],
       [line |-> W_Program \o TAB \o <<"a">> \o SP \o <<"b">>,
        tokens |-> <<W_Program, <<"a">>, <<"b">> >>],
       [line |-> W_Program \o SP \o <<"a">> \o TAB \o <<"b">>,
        tokens |-> <<W_Program, <<"a">>, <<"b">> >>],
       [line |-> <<>>, tokens |-> <<>>] >>

\* the log lists tried
ExtractArgs ==
    LET lines == { ExtractLines[i].line : i \in 1..Len(ExtractLines) }
    IN  { [t |-> "logs", logs |-> l] :
            l \in UNION { [1..k -> lines] : k \in 0..MaxLogLines } }

\* strings tried as members of an event
RtStrings ==
    { <<>>, <<"a">>, <<QUOTE>>, <<BACKSLASH>>, <<"\n">>, <<"\t">>,
      <<BACKSLASH, "n">>, <<BACKSLASH, QUOTE>>, <<"a", QUOTE, ",">>,
      <<"]", "}">>, <<":", "{">> }

\* numbers tried as slot and lamports
RtNumbers == { 0, 9, 10, 12345, 2147483647 }

RtTimestamp ==
    <<"2", "0", "2", "4", "-", "0", "1", "-", "1", "5", "T",
      "1", "0", ":", "3", "0", ":", "4", "5", "Z">>

\* log lines tried inside an event
RtLogLines == { <<>>, <<"a">>, <<QUOTE>>, <<",">>, <<BACKSLASH, "n">> }

\* the events tried
RoundTripArgs ==
    { [t |-> "event", ev |-> LogEvent(RtTimestamp, sig, slot, pid, logs)] :
        sig \in RtStrings, slot \in RtNumbers, pid \in { W_unknown, <<QUOTE>> },
        logs \in UNION { [1..k -> RtLogLines] : k \in 0..MaxLogLines } } \cup
    { [t |-> "event", ev |-> AccountEvent(RtTimestamp, pk, slot, lamports, data)] :
        pk \in { W_unknown, <<BACKSLASH>> }, slot \in RtNumbers,
        lamports \in RtNumbers, data \in RtStrings }

InitFn ==
    /\ entry = "function"
    /\ mode = "logs"
    /\ program_id = None
    /\ accounts = None
    /\ commitment = "Finalized"
    /\ pc = "fn_call"
    /\ attempt = 0
    /\ max_seconds = 30
    /\ InitRest
    /\ InitStore
    /\ arg \in ExtractArgs \cup RoundTripArgs

\* handle_logs_notification computes program_id from the logs
ExtractCall ==
    /\ pc = "fn_call"
    /\ arg.t = "logs"
    /\ ret' = [t |-> "str", s |-> extract_program_id(arg.logs)]
    /\ pc' = "fn_ret"
    /\ UNCHANGED <<arg, targets, attempt, backoff, file>>
    /\ UNCHANGED <<last_item, sink_vars, config_vars, session_vars, metric_vars,
                   ghost_vars>>

\* serde_json::to_string of the event, then serde_json::from_str of the text
RoundTripCall ==
    /\ pc = "fn_call"
    /\ arg.t = "event"
    /\ ret' = RoundTrip(arg.ev, to_json(arg.ev))
    /\ pc' = "fn_ret"
    /\ UNCHANGED <<arg, targets, attempt, backoff, file>>
    /\ UNCHANGED <<last_item, sink_vars, config_vars, session_vars, metric_vars,
                   ghost_vars>>

NextFn ==
    \/ ExtractCall
    \/ RoundTripCall

SpecFn == InitFn /\ [][NextFn]_vars

(***************************************************************************)
(* Vocabulary of the properties.                                           *)
(***************************************************************************)
\* positions inside the supervisor loop
LoopPcs ==
    {"loop", "connecting", "subscribing", "reading", "handling", "returned",
     "sleeping"}

\* the session is about to handle a text frame
HandlingText == pc = "handling" /\ msg_result.k = "Text"

\* the text frame is a response envelope that carries an error
IsErrorEnvelope(text) ==
    /\ text.json
    /\ text.jsonrpc.t = "str"
    /\ text.id.t = "num"
    /\ text.error.t = "err"

\* the records appended: the whole records that are followed by their newline
Appended(f) == { i \in 1..Len(f) : f[i] = NL /\ i > 1 /\ f[i - 1].t = "json" }

\* this step appended exactly one whole record and its newline
AppendedOne ==
    /\ Len(file') = Len(file) + 2
    /\ SubSeq(file', 1, Len(file)) = file
    /\ file'[Len(file) + 1].t = "json"
    /\ file'[Len(file) + 2] = NL

\* member i (1..5) of the record serialized in a chunk
Member(chunk, i) == chunk.kv[i][2]

IsLogRecord(chunk) == chunk.t = "json" /\ chunk.kv[2][1] = "signature"

\* a log line of the form "Program <id> invoke [n]"
InvokeForm(line) ==
    LET tok == split_whitespace(line)
    IN  Len(tok) = 4 /\ tok[1] = W_Program /\ tok[3] = W_invoke

(***************************************************************************)
(* C1.  When a text frame decodes as a response envelope carrying an       *)
(* error, the session adds one to the error counter, appends nothing and   *)
(* terminates, returning an error to the supervisor.                       *)
(***************************************************************************)
C1_RpcErrorTerminatesSession ==
    [][ (HandlingText /\ IsErrorEnvelope(msg_result.text))
        => /\ errors_total' = errors_total + 1
           /\ file' = file
           /\ events_total' = events_total
           /\ pc' = "returned"
           /\ session_result' \notin {"none", "Ok"} ]_vars

(***************************************************************************)
(* C2.  A LogEvent in the file whose first log line has the form           *)
(* "Program <id> invoke [n]" has program_id equal to <id>, the token that  *)
(* follows "Program".                                                      *)
(***************************************************************************)
C2_ProgramIdIsTokenAfterProgram ==
    \A i \in 1..Len(file) :
        (/\ IsLogRecord(file[i])
         /\ Member(file[i], 5) # <<>>
         /\ InvokeForm(Head(Member(file[i], 5))))
        => Member(file[i], 4) = split_whitespace(Head(Member(file[i], 5)))[2]

(***************************************************************************)
(* C3.  A text frame handled as a notification of the active mode, with    *)
(* the append succeeding, makes exactly one append and adds exactly one to *)
(* the event counter; so the event counter always equals the number of     *)
(* records appended, across frames and reconnects.                         *)
(***************************************************************************)
C3_OneAppendOneEvent ==
    /\ [](events_total = Cardinality(Appended(file)))
    /\ [][ (HandlingText /\ IsNotification(msg_result.text)
                         /\ Cardinality(Appended(file')) > Cardinality(Appended(file)))
           => /\ AppendedOne
              /\ events_total' = events_total + 1
              /\ errors_total' = errors_total ]_vars
    /\ [][ events_total' # events_total
           => /\ HandlingText
              /\ IsNotification(msg_result.text)
              /\ AppendedOne
              /\ events_total' = events_total + 1 ]_vars

C3_Witness ==
    /\ events_total = 2
    /\ failures >= 1
    /\ Cardinality(Appended(file)) = 2
    /\ pc = "reading"

(***************************************************************************)
(* C4.  A session never returns Ok: a close frame, a read error and the    *)
(* end of the stream each make it return an error.  The supervisor's       *)
(* "exited normally" branch is never taken, and once inside its loop the   *)
(* supervisor never leaves it.                                             *)
(***************************************************************************)
C4_SessionNeverSucceeds ==
    /\ [](session_result # "Ok" /\ pc # "exited")
    /\ [][ (pc = "handling" /\ msg_result.k \in {"Close", "Err", "End"})
           => (pc' = "returned" /\ session_result' \in ErrMessages) ]_vars
    /\ [][ (pc \in LoopPcs) => (pc' \in LoopPcs) ]_vars

C4_Witness ==
    /\ pc = "sleeping"
    /\ session_result = "WebSocket closed by server"
    /\ events_total > 0

(***************************************************************************)
(* C5.  Under fairness every session failure is eventually followed by a   *)
(* new connection attempt, however many failures came before; the gauge    *)
(* reads 0 during the backoff and a successful handshake of the new        *)
(* attempt sets it to 1.                                                   *)
(***************************************************************************)
C5_FailureLeadsToReconnect ==
    /\ (pc = "returned") ~> (pc = "connecting")
    /\ [](pc = "sleeping" => ws_connected = 0)
    /\ [][ (pc = "connecting" /\ pc' = "subscribing")
           => (ws_connected = 0 /\ ws_connected' = 1) ]_vars

C5_Witness ==
    /\ pc = "subscribing"
    /\ ws_connected = 1
    /\ failures = MaxFailures

(***************************************************************************)
(* C6.  The delay slept after a failure is delay(attempt, 30) for the      *)
(* attempt value at the failure.  attempt starts at 0, grows by one per    *)
(* failure, is reset to 0 when it has reached 10 and is changed by nothing *)
(* else; it is in 0..9 when used, and the delays run                       *)
(* 1,2,4,8,16,30,30,30,30,30 and repeat.                                   *)
(***************************************************************************)
DelayCycle == <<1, 2, 4, 8, 16, 30, 30, 30, 30, 30>>

C6_BackoffSchedule ==
    /\ [](pc = "init" => attempt = 0)
    /\ [](pc \in LoopPcs \ {"sleeping"} => attempt \in 0..9)
    /\ [](pc = "sleeping"
            => /\ attempt \in 1..10
               /\ backoff = DelayCycle[((failures - 1) % 10) + 1])
    /\ [][ pc = "returned"
           => /\ attempt' = attempt + 1
              /\ backoff' = DelayCycle[attempt + 1] ]_vars
    /\ [][ attempt' # attempt
           => \/ pc = "returned" /\ attempt' = attempt + 1
              \/ pc = "sleeping" /\ attempt = 10 /\ attempt' = 0 ]_vars

C6_Witness ==
    /\ pc = "sleeping"
    /\ failures = 11
    /\ attempt = 1
    /\ backoff = 1

(***************************************************************************)
(* C7.  While the supervisor is in a backoff sleep the gauge is 0 and the  *)
(* error counter is greater than it was when the failed session started,   *)
(* whatever made the session fail.                                         *)
(***************************************************************************)
C7_SleepAfterCountedFailure ==
    pc = "sleeping"
    => /\ ws_connected = 0
       /\ errors_total > errors_at_start
       /\ session_result \in ErrMessages

C7_Witness ==
    /\ pc = "sleeping"
    /\ session_result = "Failed to send pong"
    /\ errors_total = errors_at_start + 1

(***************************************************************************)
(* C8.  calculate_backoff(a, c) is min(2^min(a,5), c) for every a >= 0 and *)
(* c >= 1, the shift never reaching the width of its operand; in           *)
(* particular delay(0,30)=1, delay(5,30)=30, delay(100,30)=30,             *)
(* delay(3,10)=8, delay(4,10)=10.                                          *)
(***************************************************************************)
PowersOfTwo == <<1, 2, 4, 8, 16, 32>>

C8_BackoffFormula ==
    pc = "backoff_ret"
    => LET e == IF attempt < 5 THEN attempt ELSE 5
           p == PowersOfTwo[e + 1]
       IN  /\ backoff = (IF p < max_seconds THEN p ELSE max_seconds)
           /\ backoff >= 1
           /\ e < 64
           /\ (attempt = 0 /\ max_seconds = 30) => backoff = 1
           /\ (attempt = 5 /\ max_seconds = 30) => backoff = 30
           /\ (attempt = 100 /\ max_seconds = 30) => backoff = 30
           /\ (attempt = 3 /\ max_seconds = 10) => backoff = 8
           /\ (attempt = 4 /\ max_seconds = 10) => backoff = 10

C8_Witness ==
    /\ pc = "backoff_ret"
    /\ attempt = 100
    /\ max_seconds = 30
    /\ backoff = 30

(***************************************************************************)
(* C9.  The account supervisor started with no usable target (ACCOUNTS     *)
(* absent, empty, or only separators and whitespace) ends at once with a   *)
(* configuration error, makes no connection attempt and is not retried;    *)
(* with no program id the logs supervisor makes no connection attempt.     *)
(***************************************************************************)
NoUsableTarget(accts) ==
    \/ ~accts.some
    \/ \A i \in 1..Len(accts.v) : accts.v[i] \in {",", " ", "\t", "\n"}

C9_NoTargetNoConnection ==
    /\ (entry = "run_account_subscribe" /\ pc # "init" /\ NoUsableTarget(accounts))
       => (pc = "config_error" /\ connects = 0 /\ ~ws_open /\ sent = <<>>)
    /\ (entry = "run_account_subscribe" /\ pc = "config_error")
       => NoUsableTarget(accounts)
    /\ (Sup = "logs" /\ ~program_id.some)
       => (pc \in {"init", "panicked", "main_error"} /\ connects = 0 /\ ~ws_open)

C9_Witness ==
    /\ pc = "config_error"
    /\ accounts = Some(<<" ", ",", " ">>)
    /\ connects = 0

(***************************************************************************)
(* C10.  When the append fails for a notification the error counter grows  *)
(* by exactly one, the event counter does not change, the notification is  *)
(* dropped (not kept for a retry), and the session stays on the same       *)
(* connection, reading the next frame.                                     *)
(***************************************************************************)
C10_AppendFailureIsCountedAndDropped ==
    /\ [][ (HandlingText /\ IsNotification(msg_result.text) /\ ~AppendedOne)
           => /\ errors_total' = errors_total + 1
              /\ events_total' = events_total
              /\ Appended(file') = Appended(file)
              /\ msg_result' = NoMsg
              /\ pc' = "reading"
              /\ ws_open' /\ ws_open
              /\ connects' = connects
              /\ session_result' = session_result ]_vars
    /\ [](pc = "reading" => (msg_result = NoMsg /\ ws_open))

C10_Witness ==
    /\ pc = "reading"
    /\ connects = 1
    /\ errors_total = 1
    /\ events_total = 1
    /\ Len(file) = 3
    /\ file[1].t = "partial"
    /\ file[3] = NL

(***************************************************************************)
(* Vocabulary of the properties on the log and on the sink.                *)
(***************************************************************************)
\* the whole records of the file, in file order
RECURSIVE Records(_)
Records(f) ==
    IF Len(f) < 2 THEN <<>>
    ELSE IF f[1].t = "json" /\ f[2] = NL
         THEN <<f[1]>> \o Records(SubSeq(f, 3, Len(f)))
         ELSE Records(Tail(f))

\* the notifications whose handler returned Ok(()), in order of reception
Accepted(r) == SelectSeq(r, LAMBDA e : e.k = "notification" /\ e.ok)

\* the chunk holds the serialized event of the notification value n
BuiltFrom(chunk, n) ==
    IF n.t = "logs"
    THEN /\ chunk.kv[2] = <<"signature", n.signature>>
         /\ chunk.kv[3] = <<"slot", n.slot>>
         /\ chunk.kv[5] = <<"logs", n.logs>>
    ELSE /\ chunk.kv[2][1] = "pubkey"
         /\ chunk.kv[3] = <<"slot", n.slot>>
         /\ chunk.kv[4] = <<"lamports", n.lamports>>
         /\ chunk.kv[5] = <<"data", Join(n.data)>>

IsPrefix(a, b) == Len(a) <= Len(b) /\ SubSeq(b, 1, Len(a)) = a

\* positions at which the session holds a connection
ConnectedPcs == {"subscribing", "reading", "handling"}

\* the text frame decodes neither as a response envelope nor as the
\* notification of the running supervisor's mode
Unrecognized(text) ==
    /\ ~parses_as_RpcResponse(text)
    /\ ~(IF Sup = "logs" THEN parses_as_LogsNotification(text)
                         ELSE parses_as_AccountNotification(text))

(***************************************************************************)
(* C11.  The whole records of the log are, in order, the events of the     *)
(* notifications whose append succeeded, in the order the notifications    *)
(* were received, within a session and across reconnects: nothing is       *)
(* reordered and nothing is deduplicated, so a notification received again *)
(* after a reconnect is appended again.                                    *)
(***************************************************************************)
C11_LogIsAcceptedNotificationsInOrder ==
    LET acc == Accepted(received)
        rec == Records(file)
    IN  /\ Len(rec) = Len(acc)
        /\ \A i \in 1..Len(rec) : BuiltFrom(rec[i], acc[i].text.result)

C11_Witness ==
    LET acc == Accepted(received)
        rec == Records(file)
    IN  /\ Len(acc) = 2
        /\ acc[1].text = acc[2].text
        /\ acc[1].conn = 1
        /\ acc[2].conn = 2
        /\ Len(rec) = 2
        /\ rec[1] = rec[2]

(***************************************************************************)
(* C12.  The log is append-only: in every step the log before is a prefix  *)
(* of the log after, and the steps of the supervisor and of the handshake  *)
(* (failure, backoff sleep, reconnect, subscribe) leave it as it is.       *)
(***************************************************************************)
C12_LogIsAppendOnly ==
    /\ [][ IsPrefix(file, file') ]_vars
    /\ [][ (pc # "handling") => (file' = file) ]_vars

C12_Witness ==
    /\ pc = "reading"
    /\ connects = 3
    /\ failures = 2
    /\ Len(Records(file)) = 2
    /\ Accepted(received)[1].conn = 1
    /\ Accepted(received)[2].conn = 2

(***************************************************************************)
(* C13.  Every record in the log, whole or partial, was built from a       *)
(* received text frame that is a notification of the active mode.  An item *)
(* that is anything else (malformed text, the other mode's notification,   *)
(* an acknowledgment, an error envelope, a non-text frame) changes neither *)
(* the log nor the event counter and is not kept for a retry.              *)
(***************************************************************************)
C13_RecordsOnlyFromNotifications ==
    /\ [](\A i \in 1..Len(file) :
            file[i] # NL
            => \E j \in 1..Len(received) :
                  /\ received[j].k = "notification"
                  /\ BuiltFrom(file[i], received[j].text.result))
    /\ [][ (pc = "handling"
            /\ ~(msg_result.k = "Text" /\ IsNotification(msg_result.text)))
           => /\ file' = file
              /\ events_total' = events_total
              /\ msg_result' = NoMsg ]_vars
    /\ [][ (file' # file)
           => (HandlingText /\ IsNotification(msg_result.text)) ]_vars

C13_Witness ==
    /\ pc = "reading"
    /\ Len(received) = 2
    /\ received[1].k = "unrecognized"
    /\ received[2].k = "notification"
    /\ received[2].ok
    /\ Len(file) = 2
    /\ events_total = 1

(***************************************************************************)
(* C14.  A text frame that decodes neither as a response envelope nor as   *)
(* the active mode's notification is dropped: the log, the event counter,  *)
(* the error counter and the gauge are unchanged, and the session stays on *)
(* its connection and reads the next frame.                                *)
(***************************************************************************)
C14_UnrecognizedFrameIsDropped ==
    [][ (HandlingText /\ Unrecognized(msg_result.text))
        => /\ file' = file
           /\ events_total' = events_total
           /\ errors_total' = errors_total
           /\ ws_connected' = ws_connected
           /\ open_conns = 1 /\ open_conns' = 1
           /\ session_result' = session_result
           /\ connects' = connects
           /\ msg_result' = NoMsg
           /\ pc' = "reading" ]_vars

C14_Witness ==
    /\ pc = "reading"
    /\ Sup = "account"
    /\ received = << [k |-> "unrecognized"] >>
    /\ errors_total = 0
    /\ events_total = 0
    /\ ws_connected = 1
    /\ connects = 1

(***************************************************************************)
(* C15.  Two callers of the sink's append on the same file never           *)
(* interleave partial records: in every interleaving each record in the    *)
(* file is directly followed by its own newline, never by the bytes of     *)
(* another record.                                                         *)
(***************************************************************************)
C15_RecordsAreWholeLines ==
    \A i \in 1..Len(file) :
        (file[i].t = "json" /\ i < Len(file)) => file[i + 1] = NL

(***************************************************************************)
(* C16.  After the handshake the session sends one subscribe request per   *)
(* target, in target order, with ids 1..N (one request with id 1 in logs   *)
(* mode), each carrying the configured commitment; no inbound frame is     *)
(* read or processed before all of them are sent, and every new session    *)
(* starts again at id 1.                                                   *)
(***************************************************************************)
CommitmentName ==
    [Processed |-> "processed", Confirmed |-> "confirmed",
     Finalized |-> "finalized"]

NumTargets == IF Sup = "logs" THEN 1 ELSE Len(targets)

\* m is the subscribe request for target i
IsSubscribe(m, i) ==
    /\ "method" \in DOMAIN m
    /\ m.id = i
    /\ m.method = (IF Sup = "logs" THEN "logsSubscribe" ELSE "accountSubscribe")
    /\ m.target = (IF Sup = "logs" THEN program_id.v ELSE targets[i])
    /\ m.commitment = CommitmentName[commitment]

C16_OneSubscribePerTarget ==
    /\ [](pc = "subscribing"
            => /\ msg_result = NoMsg
               /\ Len(sent) < NumTargets
               /\ subscription_id = (IF Sup = "logs" THEN 1 ELSE Len(sent) + 1)
               /\ \A i \in 1..Len(sent) : IsSubscribe(sent[i], i))
    /\ [](pc \in {"reading", "handling"}
            => /\ Len(sent) >= NumTargets
               /\ \A i \in 1..NumTargets : IsSubscribe(sent[i], i)
               /\ \A i \in (NumTargets + 1)..Len(sent) : "pong" \in DOMAIN sent[i])
    /\ [][ (pc = "subscribing")
           => /\ frames' = frames
              /\ received' = received
              /\ msg_result' = NoMsg
              /\ pc' \in {"subscribing", "reading", "returned"} ]_vars
    /\ [][ (pc = "connecting" /\ pc' = "subscribing")
           => (sent' = <<>> /\ subscription_id' = 1) ]_vars

C16_Witness ==
    /\ pc = "reading"
    /\ Sup = "account"
    /\ Len(targets) = 2
    /\ connects = 2
    /\ Len(sent) = 2
    /\ sent[1].id = 1
    /\ sent[2].id = 2

(***************************************************************************)
(* C17.  Appends made one after the other leave, after what the file held  *)
(* before (nothing when it was absent), one newline-terminated line per    *)
(* returned call, in call order, each line the whole record of its call;   *)
(* the call in progress has written the start of the next line.            *)
(***************************************************************************)
RECURSIVE LinesOf(_)
LinesOf(evs) ==
    IF evs = <<>> THEN <<>> ELSE <<Json(Head(evs)), NL>> \o LinesOf(Tail(evs))

\* what the calls in progress have written, when there is at most one
InProgress ==
    LET busy == { w \in Writers : wpc[w] \in {"json", "nl"} }
    IN  IF busy = {} THEN <<>>
        ELSE LET w == CHOOSE x \in busy : TRUE
             IN  IF wpc[w] = "json" THEN <<Json(wev[w])>>
                                    ELSE <<Json(wev[w]), NL>>

C17_SequentialAppendsAreLinesInOrder ==
    (pc = "sink" /\ ~overlap /\ crashed = "no")
    => /\ file = (IF file0.some THEN file0.v ELSE <<>>)
                 \o LinesOf(done) \o InProgress
       /\ (done # <<>> \/ InFlight > 0) => exists

C17_Witness ==
    /\ pc = "sink"
    /\ ~overlap
    /\ crashed = "no"
    /\ ~file0.some
    /\ exists
    /\ InFlight = 0
    /\ Len(done) = 3
    /\ done[1] # done[2]
    /\ Len(file) = 6

(***************************************************************************)
(* C18.  Once an append has returned success its record is on stable       *)
(* storage, and after a crash at any later point the log holds the whole   *)
(* record.                                                                 *)
(***************************************************************************)
HasLine(f, ev) ==
    \E j \in 1..(Len(f) - 1) : f[j] = Json(ev) /\ f[j + 1] = NL

C18_ReturnedRecordIsStable ==
    \A i \in 1..Len(done) :
        /\ HasLine(disk, done[i])
        /\ (crashed # "no") => HasLine(file, done[i])

(***************************************************************************)
(* C19.  At most one connection is open at any time; one is open exactly   *)
(* while a session is subscribing or streaming, so none is open when the   *)
(* session has returned, during a backoff sleep, or while a connection     *)
(* attempt is in progress.                                                 *)
(***************************************************************************)
C19_AtMostOneConnection ==
    /\ open_conns \in {0, 1}
    /\ (pc \in ConnectedPcs) => open_conns = 1
    /\ (pc \notin ConnectedPcs) => open_conns = 0

C19_Witness ==
    /\ pc = "sleeping"
    /\ open_conns = 0
    /\ connects = 2
    /\ session_result = "WebSocket error"
    /\ events_total = 1

(***************************************************************************)
(* C20.  The reset of attempt makes no difference to the delays: before    *)
(* every restart the supervisor sleeps the delay that a supervisor which   *)
(* never resets attempt sleeps, calculate_backoff of the number of         *)
(* failures before this one.                                               *)
(***************************************************************************)
C20_ResetIsNoOpForDelays ==
    pc = "sleeping" => backoff = calculate_backoff(failures - 1, 30)

(***************************************************************************)
(* C21.  program_id is the third whitespace-separated token of the first   *)
(* log line when that line begins with "Program " and has at least three   *)
(* tokens; it is "unknown" when the log list is empty, when the first line *)
(* does not begin with "Program ", and when it has fewer than three        *)
(* tokens.                                                                 *)
(***************************************************************************)
\* the line begins with the eight characters of "Program "
BeginsWithProgram(line) ==
    /\ Len(line) >= 8
    /\ \A i \in 1..7 : line[i] = W_Program[i]
    /\ line[8] = " "

\* the tokens written out for the line in ExtractLines
TokensOf(line) ==
    LET i == CHOOSE j \in 1..Len(ExtractLines) : ExtractLines[j].line = line
    IN  ExtractLines[i].tokens

C21_ProgramIdIsThirdTokenOrUnknown ==
    (pc = "fn_ret" /\ arg.t = "logs")
    => /\ ret.t = "str"
       /\ (arg.logs = <<>>) => ret.s = W_unknown
       /\ (arg.logs # <<>>)
          => LET first == arg.logs[1]
                 tok == TokensOf(first)
             IN  /\ (BeginsWithProgram(first) /\ Len(tok) >= 3) => ret.s = tok[3]
                 /\ ~BeginsWithProgram(first) => ret.s = W_unknown
                 /\ Len(tok) < 3 => ret.s = W_unknown

C21_Witness ==
    /\ pc = "fn_ret"
    /\ arg.t = "logs"
    /\ Len(arg.logs) = 2
    /\ arg.logs[1] = W_Program \o SP \o SP \o <<"a">> \o SP \o SP \o <<"b">>
    /\ arg.logs[2] = LineInvoke
    /\ ret.s = <<"b">>

(***************************************************************************)
(* C22.  Every AccountEvent in the log has pubkey "unknown", whichever     *)
(* accounts are subscribed, the slot and the lamports of its notification, *)
(* and as data the notification's data segments one after the other with   *)
(* nothing between them.                                                   *)
(***************************************************************************)
\* the segments one after the other, built from the last one backwards
RECURSIVE Concatenated(_)
Concatenated(segs) ==
    IF segs = <<>> THEN <<>>
    ELSE Concatenated(SubSeq(segs, 1, Len(segs) - 1)) \o segs[Len(segs)]

C22_AccountEventFields ==
    (Sup = "account")
    => LET acc == Accepted(received)
           rec == Records(file)
       IN  /\ Len(rec) = Len(acc)
           /\ \A i \in 1..Len(rec) :
                 /\ rec[i].kv[2] = <<"pubkey", W_unknown>>
                 /\ rec[i].kv[3] = <<"slot", acc[i].text.result.slot>>
                 /\ rec[i].kv[4] = <<"lamports", acc[i].text.result.lamports>>
                 /\ rec[i].kv[5] = <<"data", Concatenated(acc[i].text.result.data)>>

C22_Witness ==
    /\ Sup = "account"
    /\ Len(targets) = 2
    /\ pc = "reading"
    /\ Len(Records(file)) = 2
    /\ Records(file)[2].kv[5] = <<"data", <<"A", "Q", "I", "D">> >>
    /\ events_total = 2

(***************************************************************************)
(* C23.  Serializing a LogEvent or an AccountEvent to its record and       *)
(* parsing the record back gives an event equal to the original in every   *)
(* field; the record is one line.                                          *)
(***************************************************************************)
C23_RoundTrip ==
    (pc = "fn_ret" /\ arg.t = "event")
    => /\ ret.back.ok
       /\ ret.back.ev = arg.ev
       /\ DOMAIN ret.back.ev = DOMAIN arg.ev
       /\ \A f \in DOMAIN arg.ev : ret.back.ev[f] = arg.ev[f]
       /\ \A i \in 1..Len(ret.json) : ret.json[i] # "\n"

C23_Witness ==
    /\ pc = "fn_ret"
    /\ arg.t = "event"
    /\ "signature" \in DOMAIN arg.ev
    /\ arg.ev.signature = <<BACKSLASH, "n">>
    /\ arg.ev.logs = << <<QUOTE>>, <<",">> >>
    /\ arg.ev.slot = 2147483647
    /\ ret.back.ok
    /\ ret.back.ev.logs = << <<QUOTE>>, <<",">> >>

(***************************************************************************)
(* C24.  A ping is answered, before the next frame is read, by exactly one *)
(* pong with the payload of the ping; when sending the pong fails the      *)
(* session ends with an error.  Either way the ping changes neither the    *)
(* log nor the counters nor the gauge.                                     *)
(***************************************************************************)
C24_PingIsAnsweredByMatchingPong ==
    /\ [][ (pc = "handling" /\ msg_result.k = "Ping")
           => /\ \/ /\ Len(sent') = Len(sent) + 1
                    /\ SubSeq(sent', 1, Len(sent)) = sent
                    /\ sent'[Len(sent')] = [pong |-> TRUE, data |-> msg_result.data]
                    /\ pc' = "reading"
                    /\ msg_result' = NoMsg
                    /\ frames' = frames
                    /\ open_conns' = open_conns
                 \/ /\ pc' = "returned"
                    /\ session_result' = "Failed to send pong"
              /\ file' = file
              /\ events_total' = events_total
              /\ errors_total' = errors_total
              /\ ws_connected' = ws_connected ]_vars
    /\ [][ (Len(sent') > Len(sent) /\ pc # "subscribing")
           => (pc = "handling" /\ msg_result.k = "Ping") ]_vars

C24_Witness ==
    /\ pc = "reading"
    /\ Sup = "logs"
    /\ Len(sent) = 3
    /\ sent[2] = [pong |-> TRUE, data |-> <<1, 2>>]
    /\ sent[3] = [pong |-> TRUE, data |-> <<>>]
    /\ errors_total = 0
    /\ ws_connected = 1

(***************************************************************************)
(* C25.  An inbound pong, a raw frame and a binary frame leave the log,    *)
(* the event counter, the error counter and the gauge unchanged, send      *)
(* nothing, and the session stays on its connection and reads the next     *)
(* frame.                                                                  *)
(***************************************************************************)
C25_PongFrameBinaryAreNoOps ==
    [][ (pc = "handling" /\ msg_result.k \in {"Pong", "Frame", "Binary"})
        => /\ file' = file
           /\ events_total' = events_total
           /\ errors_total' = errors_total
           /\ ws_connected' = ws_connected
           /\ sent' = sent
           /\ received' = received
           /\ open_conns = 1 /\ open_conns' = 1
           /\ session_result' = session_result
           /\ connects' = connects
           /\ msg_result' = NoMsg
           /\ pc' = "reading" ]_vars

C25_Witness ==
    /\ pc = "reading"
    /\ last_item.k = "Binary"
    /\ frames = 2
    /\ events_total = 1
    /\ errors_total = 0
    /\ ws_connected = 1
    /\ Len(sent) = 1

(***************************************************************************)
(* C26.  While a session awaits the transport handshake the gauge is 0,    *)
(* no connection is open and nothing has been sent.  The session start     *)
(* leaves the gauge at 0; the gauge rises to 1 only in the step in which   *)
(* the handshake succeeds; a failed handshake ends the session with the    *)
(* connect error, the gauge still 0 and no subscribe request sent.         *)
(***************************************************************************)
C26_GaugeZeroUntilHandshake ==
    /\ [](pc = "connecting" => ws_connected = 0 /\ sent = <<>> /\ open_conns = 0)
    /\ [][ /\ (pc = "loop") => (pc' = "connecting" /\ ws_connected' = 0)
           /\ (ws_connected' = 1 /\ ws_connected = 0)
                 => (pc = "connecting" /\ pc' = "subscribing" /\ open_conns' = 1)
           /\ (pc = "connecting" /\ pc' # "subscribing")
                 => /\ pc' = "returned"
                    /\ session_result' = "Failed to connect to WebSocket"
                    /\ ws_connected' = 0
                    /\ sent' = <<>>
                    /\ open_conns' = 0 ]_vars

C26_Witness ==
    /\ pc = "returned"
    /\ session_result = "Failed to connect to WebSocket"
    /\ ws_connected = 0
    /\ sent = <<>>
    /\ connects = 2
    /\ events_total = 1

(***************************************************************************)
(* C27.  A text frame that decodes as a response envelope with a result    *)
(* and no error is an acknowledgment: handling it appends nothing, leaves  *)
(* the event counter and the error counter unchanged and the session      *)
(* reads on, whatever the shape of the result, that of a notification of   *)
(* the running mode included.                                              *)
(***************************************************************************)
IsAcknowledgment(text) ==
    /\ text.json
    /\ text.jsonrpc.t = "str"
    /\ text.id.t = "num"
    /\ text.result.t # "absent"
    /\ text.error.t = "absent"

C27_EnvelopeIsTriedFirst ==
    [][ (pc = "handling" /\ msg_result.k = "Text" /\ IsAcknowledgment(msg_result.text))
        => /\ file' = file
           /\ events_total' = events_total
           /\ errors_total' = errors_total
           /\ received' = received
           /\ ws_connected' = ws_connected
           /\ sent' = sent
           /\ pc' = "reading" ]_vars

C27_Witness ==
    /\ pc = "reading"
    /\ Sup = "account"
    /\ last_item = Text(AckShapedAccountFrame)
    /\ frames = 2
    /\ events_total = 1
    /\ Len(file) = 2
    /\ errors_total = 0

(***************************************************************************)
(* C28.  From the start of a session to the next connection attempt the    *)
(* error counter rises, beyond the errors of the text handler counted in   *)
(* that session, by 2 when the session ended on a transport read error     *)
(* and by 1 when it ended on a remote close, a stream end, a failed pong,  *)
(* a failed subscribe request or a failed handshake: when the session has  *)
(* returned the counter is ahead by 1 for a read error and by 0 otherwise, *)
(* the supervisor adds 1, and the sleep and the return to the loop add     *)
(* nothing.                                                                *)
(***************************************************************************)
SessionErrors == errors_total - errors_at_start - handler_errors

C28_ReadErrorCountsTwice ==
    /\ [](pc = "returned"
            => SessionErrors = IF session_result = "WebSocket error" THEN 1 ELSE 0)
    /\ [](pc = "sleeping"
            => /\ session_result \in ErrMessages
               /\ SessionErrors = IF session_result = "WebSocket error" THEN 2 ELSE 1)
    /\ [][ (pc = "sleeping")
             => (errors_total' = errors_total /\ handler_errors' = handler_errors
                 /\ errors_at_start' = errors_at_start /\ connects' = connects) ]_vars
    /\ [][ (pc = "loop" /\ connects > 0)
             => (errors_total' = errors_total /\ connects' = connects + 1) ]_vars

C28_Witness ==
    /\ pc = "sleeping"
    /\ session_result = "WebSocket error"
    /\ connects = 2
    /\ errors_at_start = 1
    /\ handler_errors = 1
    /\ errors_total = 4

(***************************************************************************)
(* C29.  Started in account mode, the entry point ends with an error and   *)
(* never runs a supervisor: no connection is attempted, nothing is sent,   *)
(* nothing is appended and no counter moves, for every account list.  A    *)
(* run of the entry point that is past its first step and has not ended    *)
(* in an error is in logs mode.                                            *)
(***************************************************************************)
C29_MainRejectsAccountMode ==
    /\ (entry = "main" /\ mode = "account")
          => /\ pc \in {"init", "main_error"}
             /\ targets = <<>>
             /\ connects = 0
             /\ open_conns = 0
             /\ sent = <<>>
             /\ file = <<>>
             /\ events_total = 0
             /\ errors_total = 0
             /\ ws_connected = 0
    /\ (entry = "main" /\ pc \notin {"init", "main_error"})
          => (mode = "logs" /\ Sup = "logs")

C29_Witness ==
    /\ entry = "main"
    /\ mode = "account"
    /\ accounts = Some(<<"a", ",", " ", "b">>)
    /\ load_ok(mode, program_id, accounts)
    /\ pc = "main_error"
    /\ connects = 0

====
